---- MODULE Spec2Model ----
(***************************************************************************)
(* ScheduleConverter of src/start_jp.py: parse_schedule_text (text to      *)
(* records), create_excel_file (records to cell writes on the 7-day,       *)
(* 6-rows-per-day sheet) and generate_filename (text to file name).        *)
(*                                                                         *)
(* A Python str is a sequence of Unicode code points, so that comparisons  *)
(* of strings (the sort key on 'time') are the code-point comparisons      *)
(* Python makes.  A text is the sequence of its raw lines, text.split of   *)
(* the newline character; the empty text is the one-line text << <<>> >>.  *)
(***************************************************************************)
EXTENDS Integers, Sequences, FiniteSets, TLC

VARIABLES schedule_text, now, parse_status, parse_error, parsed_schedule,
          excel_status, excel_error, writes, filename

vars == <<schedule_text, now, parse_status, parse_error, parsed_schedule,
          excel_status, excel_error, writes, filename>>

----------------------------------------------------------------------------
(* Code points of the characters the patterns of the source name.          *)
Digit0 == 48
Colon == 58
Space == 32
WideSpace == 12288
AsciiOpen == 40
AsciiClose == 41
WideOpen == 65288
WideClose == 65289
Nen == 24180
Gatsu == 26376
Nichi == 26085
Tilde == 65374
Newline == 10
\* 'a' and 'b', the letters of the texts here
Letters == <<97, 98>>
LetterA == Letters[1]
LetterB == Letters[2]

\* [日月火水木金土] of the date-line pattern
WeekdayGlyphs == {26085, 26376, 28779, 27700, 26408, 37329, 22303}

\* day_names = ['月', '火', '水', '木', '金', '土', '日']
day_names == <<26376, 28779, 27700, 26408, 37329, 22303, 26085>>

\* ['打合せ', '会議', '見学', '参加', '食事', '手配', '対応']
Keywords == << <<25171, 21512, 12379>>, <<20250, 35696>>, <<35211, 23398>>,
               <<21442, 21152>>, <<39135, 20107>>, <<25163, 37197>>,
               <<23550, 24540>> >>

\* '社用車帰宅'
CompanyCarHome == <<31038, 29992, 36554, 24112, 23429>>

\* the sort key's stand-in for an empty time, '99:99'
Sentinel == <<57, 57, 58, 57, 57>>

----------------------------------------------------------------------------
(* str and re primitives                                                   *)

\* \d of a str pattern: the decimal digits of Unicode, of which the texts
\* here hold the ASCII and the full-width ones
IsDigit(c) == c \in (48..57) \cup (65296..65305)

\* the value int() gives a digit
DigitValue(c) == IF c \in 48..57 THEN c - Digit0 ELSE c - 65296

\* \s of a str pattern and the characters str.strip() removes
IsSpace(c) == c \in {Space, WideSpace, 9, 10, 11, 12, 13}

\* the character class [（）()]
IsBracket(c) == c \in {WideOpen, WideClose, AsciiOpen, AsciiClose}

Contains(s, c) == \E k \in 1..Len(s) : s[k] = c

\* int() of a string of digits
RECURSIVE ToInt(_)
ToInt(s) ==
  IF s = <<>> THEN 0
  ELSE 10 * ToInt(SubSeq(s, 1, Len(s) - 1)) + DigitValue(s[Len(s)])

\* str.zfill-like rendering of n on `width` digits (strftime's %Y %m %d)
RECURSIVE Pad(_, _)
Pad(n, width) ==
  IF width = 0 THEN <<>>
  ELSE Append(Pad(n \div 10, width - 1), Digit0 + (n % 10))

\* str.strip()
RECURSIVE LStrip(_)
LStrip(s) ==
  IF s # <<>> /\ IsSpace(s[1]) THEN LStrip(Tail(s)) ELSE s

RECURSIVE RStrip(_)
RStrip(s) ==
  IF s # <<>> /\ IsSpace(s[Len(s)]) THEN RStrip(SubSeq(s, 1, Len(s) - 1)) ELSE s

Strip(s) == RStrip(LStrip(s))

\* re.sub(r'[（）()]', '', s)
StripBrackets(s) == SelectSeq(s, LAMBDA c : ~IsBracket(c))

\* keyword in location
IsSubstring(k, s) ==
  \E p \in 1..(Len(s) - Len(k) + 1) : SubSeq(s, p, p + Len(k) - 1) = k

\* location in [...]: the whole text is one of the keywords
HasKeywordExact(s) == \E j \in 1..Len(Keywords) : Keywords[j] = s

\* any(keyword in location for keyword in [...])
HasKeyword(s) == \E j \in 1..Len(Keywords) : IsSubstring(Keywords[j], s)

\* re.split(r'[　\s]', s), the + lost: every whitespace character splits
RECURSIVE ReSplitEach(_, _, _)
ReSplitEach(s, cur, k) ==
  IF k > Len(s) THEN <<cur>>
  ELSE IF IsSpace(s[k]) THEN <<cur>> \o ReSplitEach(s, <<>>, k + 1)
  ELSE ReSplitEach(s, Append(cur, s[k]), k + 1)

\* re.split(r'[　\s]+', s): the pieces between the maximal runs of
\* whitespace, an empty piece included where s starts or ends with a run
RECURSIVE ReSplit(_, _, _)
ReSplit(s, cur, k) ==
  IF k > Len(s) THEN <<cur>>
  ELSE IF IsSpace(s[k])
       THEN IF k > 1 /\ IsSpace(s[k - 1])
            THEN ReSplit(s, cur, k + 1)
            ELSE <<cur>> \o ReSplit(s, <<>>, k + 1)
       ELSE ReSplit(s, Append(cur, s[k]), k + 1)

\* ' '.join(parts)
RECURSIVE JoinSpace(_)
JoinSpace(parts) ==
  IF parts = <<>> THEN <<>>
  ELSE IF Len(parts) = 1 THEN parts[1]
  ELSE parts[1] \o <<Space>> \o JoinSpace(Tail(parts))

\* lexicographic < of two str, by code point
RECURSIVE StrLess(_, _)
StrLess(a, b) ==
  IF b = <<>> THEN FALSE
  ELSE IF a = <<>> THEN TRUE
  ELSE IF a[1] # b[1] THEN a[1] < b[1]
  ELSE StrLess(Tail(a), Tail(b))

----------------------------------------------------------------------------
(* datetime                                                                *)

MINYEAR == 1
MAXYEAR == 9999

IsLeap(y) == (y % 4 = 0) /\ ((y % 100 # 0) \/ (y % 400 = 0))

DaysInMonth(y, m) ==
  IF m = 2 THEN (IF IsLeap(y) THEN 29 ELSE 28)
  ELSE IF m \in {4, 6, 9, 11} THEN 30 ELSE 31

\* datetime(y, m, d) raises ValueError unless this holds
ValidDate(y, m, d) ==
  /\ y \in MINYEAR..MAXYEAR
  /\ m \in 1..12
  /\ d \in 1..DaysInMonth(y, m)

\* datetime(1899, 12, 30, h, mi) raises ValueError unless this holds
ValidTime(h, mi) == h \in 0..23 /\ mi \in 0..59

MkDate(y, m, d) == [y |-> y, m |-> m, d |-> d]

\* None, for current_full_date before the first date line
NoDate == MkDate(0, 0, 0)

RECURSIVE DaysBeforeMonth(_, _)
DaysBeforeMonth(y, m) ==
  IF m <= 1 THEN 0 ELSE DaysBeforeMonth(y, m - 1) + DaysInMonth(y, m - 1)

\* date.toordinal(): 1 for 0001-01-01
ToOrdinal(dt) ==
  LET y1 == dt.y - 1
  IN  y1 * 365 + (y1 \div 4) - (y1 \div 100) + (y1 \div 400)
        + DaysBeforeMonth(dt.y, dt.m) + dt.d

\* date.weekday(): 0 = Monday .. 6 = Sunday
Weekday(dt) == (ToOrdinal(dt) + 6) % 7

\* the order of datetime values
DateLess(a, b) == ToOrdinal(a) < ToOrdinal(b)

NextDay(dt) ==
  IF dt.d < DaysInMonth(dt.y, dt.m) THEN MkDate(dt.y, dt.m, dt.d + 1)
  ELSE IF dt.m < 12 THEN MkDate(dt.y, dt.m + 1, 1)
  ELSE MkDate(dt.y + 1, 1, 1)

\* dt + timedelta(days=n); a year past MAXYEAR is the caller's OverflowError
RECURSIVE AddDays(_, _)
AddDays(dt, n) == IF n = 0 THEN dt ELSE AddDays(NextDay(dt), n - 1)

\* date.strftime('%Y<sep>%m<sep>%d')
Strftime(dt, sep) ==
  Pad(dt.y, 4) \o <<sep>> \o Pad(dt.m, 2) \o <<sep>> \o Pad(dt.d, 2)

----------------------------------------------------------------------------
(* parse_schedule_text                                                     *)

\* lines = [line.strip() for line in text.split('\n') if line.strip()]
StrippedLines(text) ==
  SelectSeq([k \in 1..Len(text) |-> Strip(text[k])], LAMBDA l : l # <<>>)

\* (\d{4})年(\d{1,2})月 matched at position p of the line: the number of
\* month digits, 0 for no match
YearMonthAt(line, p) ==
  IF /\ p + 4 <= Len(line)
     /\ \A k \in p..(p + 3) : IsDigit(line[k])
     /\ line[p + 4] = Nen
  THEN IF /\ p + 7 <= Len(line)
          /\ IsDigit(line[p + 5]) /\ IsDigit(line[p + 6])
          /\ line[p + 7] = Gatsu
       THEN 2
       ELSE IF /\ p + 6 <= Len(line)
               /\ IsDigit(line[p + 5])
               /\ line[p + 6] = Gatsu
            THEN 1
            ELSE 0
  ELSE 0

\* year_month_match = re.search(r'(\d{4})年(\d{1,2})月', lines[0]); year and
\* month are its groups, or datetime.now()'s when there is no match
year_month_match(line, today) ==
  LET hits == {p \in 1..Len(line) : YearMonthAt(line, p) > 0}
  IN  IF hits = {} THEN [year |-> today.y, month |-> today.m]
      ELSE LET p == CHOOSE q \in hits : \A r \in hits : q <= r
           IN  [year  |-> ToInt(SubSeq(line, p, p + 3)),
                month |-> ToInt(SubSeq(line, p + 5, p + 4 + YearMonthAt(line, p)))]

\* date_match = re.match(r'^(\d{1,2})\([日月火水木金土]\)$', line)
date_match(line) ==
  /\ Len(line) \in {4, 5}
  /\ \A k \in 1..(Len(line) - 3) : IsDigit(line[k])
  /\ line[Len(line) - 2] = AsciiOpen
  /\ line[Len(line) - 1] \in WeekdayGlyphs
  /\ line[Len(line)] = AsciiClose

\* day_num = int(date_match.group(1))
day_num(line) == ToInt(SubSeq(line, 1, Len(line) - 3))

\* parentheses_match = re.match(r'^[（(](.+)[）)]$', line)
parentheses_match(line) ==
  /\ Len(line) >= 3
  /\ line[1] \in {WideOpen, AsciiOpen}
  /\ line[Len(line)] \in {WideClose, AsciiClose}

\* parentheses_match.group(1)
ParenthesesGroup(line) == SubSeq(line, 2, Len(line) - 1)

\* the number of hour digits \d{1,2} takes in ^(\d{1,2}):(\d{2}), 0 when
\* the line does not start with a time
HourDigits(line) ==
  LET Fits(n) == /\ Len(line) >= n + 3
                 /\ \A k \in 1..n : IsDigit(line[k])
                 /\ line[n + 1] = Colon
                 /\ IsDigit(line[n + 2]) /\ IsDigit(line[n + 3])
  IN  IF Fits(2) THEN 2 ELSE IF Fits(1) THEN 1 ELSE 0

\* the end of the whitespace run that starts at position p (p - 1 if none)
RECURSIVE SpaceRunEnd(_, _)
SpaceRunEnd(line, p) ==
  IF p <= Len(line) /\ IsSpace(line[p]) THEN SpaceRunEnd(line, p + 1) ELSE p - 1

\* time_activity_match = re.match(r'^(\d{1,2}):(\d{2})\s+(.+)$', line):
\* \s+ takes the whole run unless that leaves nothing for (.+), and then
\* gives its last character back
time_activity_match(line) ==
  LET n == HourDigits(line)
      e == SpaceRunEnd(line, n + 4)
  IN  /\ n > 0
      /\ e >= n + 4
      /\ (e < Len(line) \/ e >= n + 5)

\* f"{group(1)}:{group(2)}"
TimeOf(line) == SubSeq(line, 1, HourDigits(line) + 3)

\* time_activity_match.group(3)
TimeGroup3(line) ==
  LET e == SpaceRunEnd(line, HourDigits(line) + 4)
  IN  IF e < Len(line) THEN SubSeq(line, e + 1, Len(line))
      ELSE SubSeq(line, e, e)

\* location and activity of a time line, after the keyword repair
LocationActivity(activity_text) ==
  LET parts == ReSplit(activity_text, <<>>, 1)
      first ==
        IF Contains(activity_text, WideOpen) /\ Contains(activity_text, WideClose)
        THEN [location |-> <<>>, activity |-> StripBrackets(activity_text)]
        ELSE IF activity_text = CompanyCarHome
        THEN [location |-> CompanyCarHome, activity |-> <<>>]
        ELSE [location |-> parts[1],
              activity |-> IF Len(parts) > 1 THEN JoinSpace(Tail(parts)) ELSE <<>>]
  IN  IF first.activity = <<>> /\ first.location # <<>> /\ HasKeyword(first.location)
      THEN [location |-> <<>>, activity |-> first.location]
      ELSE first

\* the record appended for a parenthesised line
ParenthesesEntry(line, current_date, current_full_date) ==
  [date |-> current_date, full_date |-> current_full_date,
   time |-> <<>>, location |-> <<>>,
   activity |-> Strip(ParenthesesGroup(line)),
   has_all_data |-> FALSE]

\* the record of a time line with 'has_all_data': True whatever it holds
TimeEntryComplete(line, current_date, current_full_date) ==
  LET la == LocationActivity(Strip(TimeGroup3(line)))
  IN  [date |-> current_date, full_date |-> current_full_date,
       time |-> TimeOf(line), location |-> la.location, activity |-> la.activity,
       has_all_data |-> TRUE]

\* the record appended for a time line
TimeEntry(line, current_date, current_full_date) ==
  LET time == TimeOf(line)
      la   == LocationActivity(Strip(TimeGroup3(line)))
  IN  [date |-> current_date, full_date |-> current_full_date,
       time |-> time, location |-> la.location, activity |-> la.activity,
       has_all_data |-> (time # <<>> /\ (la.location # <<>> \/ la.activity # <<>>))]

\* the first while loop: the index of the first date line, Len + 1 if none
FirstDateLine(lines) ==
  LET hits == {k \in 1..Len(lines) : date_match(lines[k])}
  IN  IF hits = {} THEN Len(lines) + 1
      ELSE CHOOSE k \in hits : \A j \in hits : k <= j

\* the second while loop, from line i on
RECURSIVE ScanLines(_, _, _, _, _, _, _)
ScanLines(lines, i, year, month, current_date, current_full_date, schedule) ==
  IF i > Len(lines) THEN [status |-> "ok", error |-> "", schedule |-> schedule]
  ELSE LET line == lines[i]
       IN  IF date_match(line)
           THEN IF ValidDate(year, month, day_num(line))
                THEN ScanLines(lines, i + 1, year, month, line,
                               MkDate(year, month, day_num(line)), schedule)
                ELSE [status |-> "error", error |-> "ValueError", schedule |-> <<>>]
           ELSE IF parentheses_match(line) /\ current_full_date # NoDate
           THEN ScanLines(lines, i + 1, year, month, current_date, current_full_date,
                          Append(schedule,
                                 ParenthesesEntry(line, current_date, current_full_date)))
           ELSE IF time_activity_match(line) /\ current_full_date # NoDate
           THEN ScanLines(lines, i + 1, year, month, current_date, current_full_date,
                          Append(schedule,
                                 TimeEntry(line, current_date, current_full_date)))
           ELSE ScanLines(lines, i + 1, year, month, current_date, current_full_date,
                          schedule)

\* schedule.sort(key=lambda x: x['full_date']), a sort the parser does not do
RECURSIVE SortedByDate(_)
SortedByDate(schedule) ==
  IF schedule = <<>> THEN <<>>
  ELSE LET last == schedule[Len(schedule)]
           front == SortedByDate(SubSeq(schedule, 1, Len(schedule) - 1))
       IN  SelectSeq(front, LAMBDA x : ~DateLess(last.full_date, x.full_date))
             \o <<last>>
             \o SelectSeq(front, LAMBDA x : DateLess(last.full_date, x.full_date))

\* parse_schedule_text returning its records in the order of their dates
parse_schedule_text_sorted(text, today) ==
  LET lines == StrippedLines(text)
  IN  IF lines = <<>>
      THEN [status |-> "error", error |-> "IndexError", schedule |-> <<>>]
      ELSE LET ym == year_month_match(lines[1], today)
               r == ScanLines(lines, FirstDateLine(lines), ym.year, ym.month,
                              <<>>, NoDate, <<>>)
           IN  [r EXCEPT !.schedule = SortedByDate(r.schedule)]

\* parse_schedule_text(text), with datetime.now() = today
parse_schedule_text(text, today) ==
  LET lines == StrippedLines(text)
  IN  IF lines = <<>>
      THEN [status |-> "error", error |-> "IndexError", schedule |-> <<>>]
      ELSE LET ym == year_month_match(lines[1], today)
           IN  ScanLines(lines, FirstDateLine(lines), ym.year, ym.month,
                         <<>>, NoDate, <<>>)

----------------------------------------------------------------------------
(* create_excel_file                                                       *)
(* An entry of a day's list is the index in schedule_data of the dict the  *)
(* list refers to; a write records the entry it was made for (0 for the    *)
(* date column).                                                           *)

StrValue(s) == [kind |-> "str", text |-> s, hour |-> 0, minute |-> 0]

\* datetime(1899, 12, 30, h, mi)
TimeValue(h, mi) == [kind |-> "datetime", text |-> <<>>, hour |-> h, minute |-> mi]

CellWrite(r, c, v, e) == [row |-> r, column |-> c, value |-> v, entry |-> e]

\* first_entry = schedule_data[0]: the date of the first entry, not the least
start_date_of_first(schedule_data) == schedule_data[1].full_date

\* first_entry = min(schedule_data, key=lambda x: x['full_date']): the
\* first of the entries with the least date
start_date(schedule_data) ==
  LET k == CHOOSE i \in 1..Len(schedule_data) :
             /\ \A j \in 1..Len(schedule_data) :
                  ~DateLess(schedule_data[j].full_date, schedule_data[i].full_date)
             /\ \A j \in 1..(i - 1) :
                  DateLess(schedule_data[i].full_date, schedule_data[j].full_date)
  IN  schedule_data[k].full_date

\* start_date + timedelta(days=6) raises OverflowError past 9999-12-31
WeekOverflows(start) == ToOrdinal(start) + 6 > ToOrdinal(MkDate(MAXYEAR, 12, 31))

\* all_dates
all_dates(start) ==
  <<start, AddDays(start, 1), AddDays(start, 2), AddDays(start, 3),
    AddDays(start, 4), AddDays(start, 5), AddDays(start, 6)>>

\* the indices 1..n in order, for the loop over schedule_data
RECURSIVE Indices(_)
Indices(n) == IF n = 0 THEN <<>> ELSE Append(Indices(n - 1), n)

\* schedule_by_date[date_key], before the sort: the entries of that
\* date_key in the order of schedule_data
EntriesOfKey(schedule_data, date_key) ==
  SelectSeq(Indices(Len(schedule_data)),
            LAMBDA k : Strftime(schedule_data[k].full_date, 45) = date_key)

\* the sort key (not x.get('has_all_data', True), x['time'] or '99:99')
SortKey(x) ==
  [incomplete |-> ~x.has_all_data,
   time       |-> IF x.time # <<>> THEN x.time ELSE Sentinel]

\* KeyLess with the key written as (x['has_all_data'], ...), the `not` lost
KeyLessWithoutNot(a, b) ==
  \/ (a.incomplete /\ ~b.incomplete)
  \/ (a.incomplete = b.incomplete /\ StrLess(a.time, b.time))

\* the order of two keys: tuples compare item by item, False < True
KeyLess(a, b) ==
  \/ (~a.incomplete /\ b.incomplete)
  \/ (a.incomplete = b.incomplete /\ StrLess(a.time, b.time))

\* list.sort(key=...) is stable: an entry goes before the first one of the
\* sorted prefix whose key is greater
RECURSIVE InsertEntry(_, _, _)
InsertEntry(schedule_data, sorted, e) ==
  IF sorted = <<>> THEN <<e>>
  ELSE IF KeyLess(SortKey(schedule_data[e]), SortKey(schedule_data[Head(sorted)]))
       THEN <<e>> \o sorted
       ELSE <<Head(sorted)>> \o InsertEntry(schedule_data, Tail(sorted), e)

RECURSIVE SortEntries(_, _)
SortEntries(schedule_data, entries) ==
  IF entries = <<>> THEN <<>>
  ELSE InsertEntry(schedule_data,
                   SortEntries(schedule_data, SubSeq(entries, 1, Len(entries) - 1)),
                   entries[Len(entries)])

\* day_entries = schedule_by_date.get(date_key, [])
day_entries(schedule_data, date) ==
  SortEntries(schedule_data, EntriesOfKey(schedule_data, Strftime(date, 45)))

\* day_start_row = 7 + (day_idx * 5): blocks one row too short
day_start_row_of_five(day_idx) == 7 + (day_idx * 5)

\* day_start_row = 7 + (day_idx * 6)
day_start_row(day_idx) == 7 + (day_idx * 6)

\* the value of the date column at row_offset of a day's block
DateColumnValue(date, row_offset) ==
  IF row_offset = 0
  THEN StrValue(<<AsciiOpen, day_names[Weekday(date) + 1], AsciiClose>>)
  ELSE IF row_offset = 1 THEN StrValue(Strftime(date, 47))
  ELSE StrValue(<<>>)

\* for row_offset in range(6): ws.cell(row=current_row, column=1, ...)
DateColumnWrites(day_idx, date) ==
  [k \in 1..6 |->
     CellWrite(day_start_row(day_idx) + (k - 1), 1, DateColumnValue(date, k - 1), 0)]

\* entry['time'].split(':')
RECURSIVE SplitColon(_, _, _)
SplitColon(s, cur, k) ==
  IF k > Len(s) THEN <<cur>>
  ELSE IF s[k] = Colon THEN <<cur>> \o SplitColon(s, <<>>, k + 1)
  ELSE SplitColon(s, Append(cur, s[k]), k + 1)

time_parts(time) == SplitColon(time, <<>>, 1)

\* the time of an entry is one datetime() accepts
TimeAccepted(time) ==
  ValidTime(ToInt(time_parts(time)[1]), ToInt(time_parts(time)[2]))

\* the three cells of one entry at row_index
EntryWrites(entry, e, row_index) ==
  << CellWrite(row_index, 2,
               IF entry.time # <<>>
               THEN TimeValue(ToInt(time_parts(entry.time)[1]),
                              ToInt(time_parts(entry.time)[2]))
               ELSE StrValue(<<>>), e),
     CellWrite(row_index, 3, StrValue(StripBrackets(entry.location)), e),
     CellWrite(row_index, 4, StrValue(StripBrackets(entry.activity)), e) >>

\* for entry in day_entries: ... row_index += 1; break at the block's end
RECURSIVE EntryLoop(_, _, _, _, _)
EntryLoop(schedule_data, entries, j, first_row, done) ==
  IF j > Len(entries) THEN [status |-> "ok", error |-> "", writes |-> done]
  ELSE LET entry == schedule_data[entries[j]]
           row_index == first_row + (j - 1)
       IN  IF entry.time # <<>> /\ ~TimeAccepted(entry.time)
           THEN [status |-> "error", error |-> "ValueError", writes |-> done]
           ELSE IF row_index + 1 >= first_row + 6
           THEN [status |-> "ok", error |-> "",
                 writes |-> done \o EntryWrites(entry, entries[j], row_index)]
           ELSE EntryLoop(schedule_data, entries, j + 1, first_row,
                          done \o EntryWrites(entry, entries[j], row_index))

\* the loop over the days goes on after a day whose entries were all
\* written, and ends with the exception of one that raised
RECURSIVE DayLoop(_, _, _, _)
AfterDay(schedule_data, dates, day_idx, r) ==
  IF r.status = "ok" THEN DayLoop(schedule_data, dates, day_idx + 1, r.writes) ELSE r

\* one day: the date column of its block, then its entries
DayBlock(schedule_data, day_idx, date, done) ==
  EntryLoop(schedule_data, day_entries(schedule_data, date), 1,
            day_start_row(day_idx), done \o DateColumnWrites(day_idx, date))

\* for day_idx, date in enumerate(all_dates)
DayLoop(schedule_data, dates, day_idx, done) ==
  IF day_idx > 6 THEN [status |-> "ok", error |-> "", writes |-> done]
  ELSE AfterDay(schedule_data, dates, day_idx,
                DayBlock(schedule_data, day_idx, dates[day_idx + 1], done))

\* create_excel_file(template_file, schedule_data): the cells written to
\* the sheet and whether the call returned or raised
create_excel_file(schedule_data) ==
  IF schedule_data = <<>> THEN [status |-> "ok", error |-> "", writes |-> <<>>]
  ELSE IF WeekOverflows(start_date(schedule_data))
  THEN [status |-> "error", error |-> "OverflowError", writes |-> <<>>]
  ELSE DayLoop(schedule_data, all_dates(start_date(schedule_data)), 0, <<>>)

----------------------------------------------------------------------------
(* generate_filename                                                       *)

\* the text as one str, its lines joined by the newline character
RECURSIVE JoinLines(_)
JoinLines(text) ==
  IF text = <<>> THEN <<>>
  ELSE IF Len(text) = 1 THEN text[1]
  ELSE Head(text) \o <<Newline>> \o JoinLines(Tail(text))

\* s holds n digits from position p on
DigitRun(s, p, n) == p + n - 1 <= Len(s) /\ \A k \in p..(p + n - 1) : IsDigit(s[k])

CharAt(s, p, c) == p <= Len(s) /\ s[p] = c

\* the number of digits (\d{1,2}) takes at p when the character c must
\* follow it, 0 when it cannot match
OneOrTwoDigits(s, p, c) ==
  IF DigitRun(s, p, 2) /\ CharAt(s, p + 2, c) THEN 2
  ELSE IF DigitRun(s, p, 1) /\ CharAt(s, p + 1, c) THEN 1 ELSE 0

\* the str itself, zfill left out
ZfillNone(s, width) == s

\* str.zfill(width)
RECURSIVE Zfill(_, _)
Zfill(s, width) == IF Len(s) >= width THEN s ELSE Zfill(<<Digit0>> \o s, width)

\* (\d{4})年(\d{1,2})月(\d{1,2})日\([日月火水木金土]\) at position p of s:
\* its three groups and the position after the match
FullDateAt(s, p) ==
  LET nm == IF DigitRun(s, p, 4) /\ CharAt(s, p + 4, Nen)
            THEN OneOrTwoDigits(s, p + 5, Gatsu) ELSE 0
      pd == p + 6 + nm
      nd == IF nm > 0 THEN OneOrTwoDigits(s, pd, Nichi) ELSE 0
      pw == pd + nd + 1
  IN  IF /\ nd > 0
         /\ CharAt(s, pw, AsciiOpen)
         /\ pw + 1 <= Len(s) /\ s[pw + 1] \in WeekdayGlyphs
         /\ CharAt(s, pw + 2, AsciiClose)
      THEN [ok |-> TRUE, year |-> SubSeq(s, p, p + 3),
            month |-> SubSeq(s, p + 5, p + 4 + nm),
            day |-> SubSeq(s, pd, pd + nd - 1), next |-> pw + 3]
      ELSE [ok |-> FALSE, year |-> <<>>, month |-> <<>>, day |-> <<>>, next |-> p]

\* the date-range pattern at position p of s: <date>\s*～\s*<date>
DateRangeAt(s, p) ==
  LET a == FullDateAt(s, p)
      q == SpaceRunEnd(s, a.next) + 1
      b == FullDateAt(s, SpaceRunEnd(s, q + 1) + 1)
  IN  IF a.ok /\ CharAt(s, q, Tilde) /\ b.ok
      THEN [ok |-> TRUE, start |-> a, end |-> b]
      ELSE [ok |-> FALSE, start |-> a, end |-> a]

\* f"{start_year}{start_month}{start_day}to{end_year}{end_month}{end_day}.xlsx"
RangeName(r) ==
  r.start.year \o Zfill(r.start.month, 2) \o Zfill(r.start.day, 2)
    \o <<116, 111>>
    \o r.end.year \o Zfill(r.end.month, 2) \o Zfill(r.end.day, 2)
    \o <<46, 120, 108, 115, 120>>

\* f"weekly_schedule_{datetime.now().strftime('%Y%m%d')}.xlsx"
FallbackName(today) ==
  <<119, 101, 101, 107, 108, 121, 95, 115, 99, 104, 101, 100, 117, 108, 101, 95>>
    \o Pad(today.y, 4) \o Pad(today.m, 2) \o Pad(today.d, 2)
    \o <<46, 120, 108, 115, 120>>

\* re.search: the leftmost position of s the pattern matches at
SearchDateRange(s, today) ==
  LET hits == {p \in 1..Len(s) : DateRangeAt(s, p).ok}
  IN  IF hits = {} THEN FallbackName(today)
      ELSE RangeName(DateRangeAt(s, CHOOSE p \in hits : \A q \in hits : p <= q))

generate_filename(text, today) == SearchDateRange(JoinLines(text), today)

----------------------------------------------------------------------------
(* The inputs: texts made of lines of the shapes the parser tells apart.   *)

MaxLines == 4
MaxWeekLines == 4
MaxDayEntries == 7
MaxPieces == 3
MaxNameLines == 3

SeqsUpTo(S, n) == UNION {[1..k -> S] : k \in 0..n}

RECURSIVE Concat(_)
Concat(ss) == IF ss = <<>> THEN <<>> ELSE Head(ss) \o Concat(Tail(ss))

\* '2025年6月'
HeaderLine == <<50, 48, 50, 53, Nen, 54, Gatsu>>

\* 'DD(月)'
DateLine(d) == Pad(d, 2) \o <<AsciiOpen, Gatsu, AsciiClose>>

\* '（a）'
WideParenLine == <<WideOpen, LetterA, WideClose>>

\* '(b)'
AsciiParenLine == <<AsciiOpen, LetterB, AsciiClose>>

\* 'H:MM' or 'HH:MM', the hour on `digits` digits
TimeText(h, digits, mi) == Pad(h, digits) \o <<Colon>> \o Pad(mi, 2)

\* 'H:MM rest'
TimeLine(h, digits, mi, rest) == TimeText(h, digits, mi) \o <<Space>> \o rest

\* the lines of the texts of Spec, after the header line if there is one;
\* the date line of the 23rd is written with blanks around it, and the
\* blank line is the empty one
LineMenu ==
  { <<Space>> \o DateLine(23) \o <<WideSpace>>,
    DateLine(24),
    DateLine(31),
    <<>>,
    WideParenLine,
    TimeLine(9, 1, 0, <<LetterA>>),
    <<LetterA>> }

\* the lines after the header in the texts of SpecWeek: the 30th is the
\* day after the week of the 23rd
WeekMenu ==
  { DateLine(23), DateLine(24), DateLine(30),
    WideParenLine,
    TimeLine(9, 1, 0, <<LetterA>>),
    TimeLine(10, 2, 0, <<LetterB>>),
    TimeLine(9, 1, 30, <<WideOpen, WideClose>>),
    TimeLine(25, 2, 0, <<LetterA>>) }

\* the lines of the one day of the texts of SpecBlock
BlockMenu ==
  { WideParenLine,
    TimeLine(8, 2, 50, <<LetterA>>),
    TimeLine(15, 2, 0, <<LetterB>>) }

\* the pieces a time line's remainder is made of in the texts of SpecEntry
PieceMenu ==
  { <<LetterA>>, <<LetterB, WideSpace, Space, LetterB>>, <<Space>>, <<WideSpace>>,
    <<WideOpen>>, <<WideClose>>, <<AsciiOpen>>, <<AsciiClose>> }

\* a month or a day as it is typed: on `width` digits when it is below 10
Typed(n, width) == IF n < 10 THEN Pad(n, width) ELSE Pad(n, 2)

\* 'YYYY年M月D日(月)', the month and the day on at least `width` digits
FullDateText(y, mo, d, width) ==
  Pad(y, 4) \o <<Nen>> \o Typed(mo, width) \o <<Gatsu>> \o Typed(d, width)
    \o <<Nichi, AsciiOpen, Gatsu, AsciiClose>>

\* the date-range line of r: prefix, start date, ～ between gaps, end date
RangeText(r) ==
  r.prefix \o FullDateText(r.y1, r.m1, r.d1, r.width) \o r.gap \o <<Tilde>>
    \o r.gap \o FullDateText(r.y2, r.m2, r.d2, r.width)

\* '2025年06月23日(月) ～ 2025年06月29日(日)' of the sample, and
\* 'a2025年6月30日(月)～2025年7月6日(月)': one-digit month and day, no
\* blanks, after other text
RangeLines ==
  { [prefix |-> <<>>, y1 |-> 2025, m1 |-> 6, d1 |-> 23,
     y2 |-> 2025, m2 |-> 6, d2 |-> 29, width |-> 2, gap |-> <<Space>>],
    [prefix |-> <<LetterA>>, y1 |-> 2025, m1 |-> 6, d1 |-> 30,
     y2 |-> 2025, m2 |-> 7, d2 |-> 6, width |-> 1, gap |-> <<>>] }

\* '2025年6月23日 ～ 2025年6月29日', the weekdays left out
NoWeekdayLine ==
  <<50, 48, 50, 53, Nen, 54, Gatsu, 50, 51, Nichi, Space, Tilde, Space,
    50, 48, 50, 53, Nen, 54, Gatsu, 50, 57, Nichi>>

\* the lines of the texts of SpecName: date-range lines, a line that is
\* nearly one, an empty line, and body lines, of which the 31st fails
NameMenu ==
  {RangeText(r) : r \in RangeLines}
    \cup { NoWeekdayLine, <<>>, HeaderLine, DateLine(23), DateLine(31),
           TimeLine(9, 1, 0, <<LetterA>>) }

\* datetime.now()
Today == MkDate(2024, 7, 15)

InitRest ==
  /\ now = Today
  /\ parse_status = "idle"
  /\ parse_error = ""
  /\ parsed_schedule = <<>>
  /\ excel_status = "idle"
  /\ excel_error = ""
  /\ writes = <<>>
  /\ filename = <<>>

Init ==
  /\ \E first \in {<<>>, <<HeaderLine>>} :
     \E body \in (SeqsUpTo(LineMenu, MaxLines) \ {<<>>}) :
       schedule_text = first \o body
  /\ InitRest

InitWeek ==
  /\ \E body \in SeqsUpTo(WeekMenu, MaxWeekLines) :
       schedule_text = <<HeaderLine>> \o body
  /\ InitRest

InitBlock ==
  /\ \E body \in SeqsUpTo(BlockMenu, MaxDayEntries) :
       schedule_text = <<HeaderLine, DateLine(23)>> \o body
  /\ InitRest

InitEntry ==
  /\ \E lead \in {TimeText(9, 1, 5) \o <<Space>>,
                   TimeText(10, 2, 30) \o <<WideSpace, Space>>} :
     \E pieces \in (SeqsUpTo(PieceMenu, MaxPieces) \ {<<>>}) :
       schedule_text = <<HeaderLine, DateLine(23), lead \o Concat(pieces)>>
  /\ InitRest

\* the pieces of the third line of the texts of SpecLine: a letter, a
\* blank, the four bracket glyphs, the keyword '会議' and '社用車帰宅'
LinePieceMenu ==
  { <<LetterA>>, <<Space>>, <<WideOpen>>, <<WideClose>>, <<AsciiOpen>>,
    <<AsciiClose>>, Keywords[2], CompanyCarHome }

\* a header, the date line of the 23rd and one line, with or without a time
InitLine ==
  /\ \E lead \in {<<>>, TimeText(9, 1, 5) \o <<Space>>} :
     \E pieces \in (SeqsUpTo(LinePieceMenu, MaxPieces) \ {<<>>}) :
       schedule_text = <<HeaderLine, DateLine(23), lead \o Concat(pieces)>>
  /\ InitRest

InitName ==
  /\ \E text \in (SeqsUpTo(NameMenu, MaxNameLines) \ {<<>>}) :
       schedule_text = text
  /\ InitRest

----------------------------------------------------------------------------
(* The calls                                                               *)

\* converter.parsed_schedule = converter.parse_schedule_text(schedule_text)
ParseScheduleText ==
  /\ parse_status = "idle"
  /\ \E r \in {parse_schedule_text(schedule_text, now)} :
         /\ parse_status' = r.status
         /\ parse_error' = r.error
         /\ parsed_schedule' = r.schedule
  /\ UNCHANGED <<schedule_text, now, excel_status, excel_error, writes, filename>>

\* converter.create_excel_file(excel_template, parsed_schedule)
CreateExcelFile ==
  /\ parse_status = "ok"
  /\ excel_status = "idle"
  /\ \E r \in {create_excel_file(parsed_schedule)} :
         /\ excel_status' = r.status
         /\ excel_error' = r.error
         /\ writes' = r.writes
  /\ UNCHANGED <<schedule_text, now, parse_status, parse_error, parsed_schedule,
                 filename>>

\* filename = converter.generate_filename(schedule_text)
GenerateFilename ==
  /\ filename = <<>>
  /\ filename' = generate_filename(schedule_text, now)
  /\ UNCHANGED <<schedule_text, now, parse_status, parse_error, parsed_schedule,
                 excel_status, excel_error, writes>>

Next == ParseScheduleText \/ CreateExcelFile

\* the calls with generate_filename among them; it reads the text and the
\* clock only and sets the name only, so the other two calls go the same
\* way with it as without it
NextName == Next \/ GenerateFilename

Spec == Init /\ [][Next]_vars

SpecWeek == InitWeek /\ [][Next]_vars

SpecBlock == InitBlock /\ [][Next]_vars

SpecEntry == InitEntry /\ [][Next]_vars

SpecLine == InitLine /\ [][Next]_vars

SpecName == InitName /\ [][NextName]_vars

----------------------------------------------------------------------------
(* What the claims speak of                                                *)

Lines == StrippedLines(schedule_text)

Entries == 1..Len(parsed_schedule)

\* an entry is placed when its time cell was written
Placed(e) == \E k \in 1..Len(writes) : writes[k].entry = e /\ writes[k].column = 2

RowOf(e) ==
  writes[CHOOSE k \in 1..Len(writes) : writes[k].entry = e /\ writes[k].column = 2].row

SameDay(e1, e2) == parsed_schedule[e1].full_date = parsed_schedule[e2].full_date

Complete(e) == parsed_schedule[e].has_all_data

\* the time of a timed entry as (hour, minute)
HourOf(e) == ToInt(time_parts(parsed_schedule[e].time)[1])
MinuteOf(e) == ToInt(time_parts(parsed_schedule[e].time)[2])

EarlierClock(e1, e2) ==
  \/ HourOf(e1) < HourOf(e2)
  \/ (HourOf(e1) = HourOf(e2) /\ MinuteOf(e1) < MinuteOf(e2))

\* C1: of two records placed in the same day's block, a complete one is in
\* an earlier row than an incomplete one, whatever their order in the text.
C1_CompleteBeforeIncomplete ==
  \A e1, e2 \in Entries :
    (Placed(e1) /\ Placed(e2) /\ SameDay(e1, e2) /\ Complete(e1) /\ ~Complete(e2))
      => RowOf(e1) < RowOf(e2)

\* C1 witness: an incomplete record that came first in the text is placed
\* below a complete record of the same day.
C1_Witness ==
  /\ excel_status = "ok"
  /\ \E e1, e2 \in Entries :
       /\ e1 < e2 /\ SameDay(e1, e2) /\ ~Complete(e1) /\ Complete(e2)
       /\ parsed_schedule[e1].time = <<>>
       /\ Placed(e1) /\ Placed(e2) /\ RowOf(e2) < RowOf(e1)

\* C2: of two timed records placed in the same day's block and of the same
\* completeness, the one with the earlier (hour, minute) is in the earlier row.
C2_ClockOrderWithinTier ==
  \A e1, e2 \in Entries :
    (/\ Placed(e1) /\ Placed(e2) /\ SameDay(e1, e2)
     /\ Complete(e1) = Complete(e2)
     /\ parsed_schedule[e1].time # <<>> /\ parsed_schedule[e2].time # <<>>
     /\ EarlierClock(e1, e2))
      => RowOf(e1) < RowOf(e2)

\* the records whose date is day d of the week that starts at `start`
RecordsOfDay(start, d) ==
  {e \in Entries : ToOrdinal(parsed_schedule[e].full_date) = start + d}

BlockRows(d) == (7 + 6 * d)..(7 + 6 * d + 5)

Min(a, b) == IF a < b THEN a ELSE b

\* a day with the records `recs`, `sorted` being its sorted list, got what
\* the claim C3 gives it: the first min(N, 6) of the list, one row each, in
\* the day's own block
DayTruncated(d, sorted, recs) ==
  /\ Len(sorted) = Cardinality(recs)
  /\ \A j \in 1..Len(sorted) :
       IF j <= Min(Len(sorted), 6)
       THEN Placed(sorted[j]) /\ RowOf(sorted[j]) \in BlockRows(d)
       ELSE ~Placed(sorted[j])
  /\ \A k \in 1..Len(writes) :
       (writes[k].entry \in recs) => writes[k].row \in BlockRows(d)
  /\ \A e1, e2 \in recs :
       (Placed(e1) /\ Placed(e2) /\ e1 # e2) => RowOf(e1) # RowOf(e2)

WeekTruncated(start) ==
  \A d \in 0..6 :
    DayTruncated(d, day_entries(parsed_schedule, AddDays(start, d)),
                 RecordsOfDay(ToOrdinal(start), d))

\* C3: once create_excel_file was called on a non-empty list it has
\* returned without error, and every day of the week with N records has
\* exactly the first min(N, 6) of its sorted records written, each in one
\* row of the day's own block.
C3_SixPerDay ==
  (excel_status # "idle" /\ parsed_schedule # <<>>) =>
    /\ excel_status = "ok"
    /\ WeekTruncated(start_date(parsed_schedule))

\* The same for the calls that returned: what is left of C3 when no time
\* of the list makes datetime() raise.
SixPerDayWhenReturned ==
  (excel_status = "ok" /\ parsed_schedule # <<>>) =>
    WeekTruncated(start_date(parsed_schedule))

\* A day of seven records, six of them written.
SevenRecordsReached ==
  /\ excel_status = "ok"
  /\ Len(parsed_schedule) = 7
  /\ Cardinality({e \in Entries : Placed(e)}) = 6

Written(r, c) == \E k \in 1..Len(writes) : writes[k].row = r /\ writes[k].column = c

\* all seven date labels are written, and a day without records has no
\* write in columns 2 to 4 of its block
DateLabelsWritten(start) ==
  \A d \in 0..6 :
    /\ Written(7 + 6 * d, 1) /\ Written(7 + 6 * d + 1, 1)
    /\ (RecordsOfDay(start, d) = {}) =>
         \A r \in BlockRows(d) : \A c \in 2..4 : ~Written(r, c)

\* C4: once create_excel_file was called on a non-empty list, column 1 of
\* the first two rows of each of the seven blocks is written, and the block
\* of a day without records has no write in columns 2, 3 and 4.
C4_DateLabelsAllDays ==
  (excel_status # "idle" /\ parsed_schedule # <<>>) =>
    DateLabelsWritten(ToOrdinal(start_date(parsed_schedule)))

\* The same for the calls that returned.
DateLabelsWhenReturned ==
  (excel_status = "ok" /\ parsed_schedule # <<>>) =>
    DateLabelsWritten(ToOrdinal(start_date(parsed_schedule)))

\* the lines from the first date line on that give a record: the lines in
\* brackets and the lines that start with a time
EntryLineIndices(L) ==
  SelectSeq(Indices(Len(L)),
            LAMBDA k : /\ \E h \in 1..(k - 1) : date_match(L[h])
                       /\ ~date_match(L[k])
                       /\ (parentheses_match(L[k]) \/ time_activity_match(L[k])))

\* the nearest date line before line k
HeaderBefore(L, k) ==
  CHOOSE h \in 1..(k - 1) :
    date_match(L[h]) /\ \A g \in (h + 1)..(k - 1) : ~date_match(L[g])

\* record j is the record of the entry line E[j], dated by the date line
\* before it in the year and month ym
RecordsFollowLines(L, E, ym) ==
  /\ Len(parsed_schedule) = Len(E)
  /\ \A j \in 1..Len(E) :
       LET rec == parsed_schedule[j]
           line == L[E[j]]
           header == L[HeaderBefore(L, E[j])]
       IN  /\ rec.date = header
           /\ rec.full_date = MkDate(ym.year, ym.month, day_num(header))
           /\ rec.time = IF parentheses_match(line) THEN <<>> ELSE TimeOf(line)
           /\ parentheses_match(line) => rec.activity = Strip(ParenthesesGroup(line))

\* C5: a parse that returns gives one record for each bracket-only or
\* timed line after the first date line, in the order of the lines, each
\* dated (year, month, D) by the nearest date line D(W) before it, year
\* and month being those of the first line (today's when it names none).
C5_OneRecordPerEntryLine ==
  (parse_status = "ok") =>
    RecordsFollowLines(Lines, EntryLineIndices(Lines),
                       IF IsSubstring(HeaderLine, Lines[1])
                       THEN [year |-> 2025, month |-> 6]
                       ELSE [year |-> now.y, month |-> now.m])

\* C5 witness: under a first line that names the year and month, two
\* records returned in the order of their lines, the later date first.
C5_Witness ==
  /\ parse_status = "ok"
  /\ Lines[1] = HeaderLine
  /\ \E j \in 1..(Len(parsed_schedule) - 1) :
       /\ DateLess(parsed_schedule[j + 1].full_date, parsed_schedule[j].full_date)
       /\ parsed_schedule[j].full_date.y = 2025

\* some date line of the text has a day that its year and month do not have
BadDateLine(L, today) ==
  /\ L # <<>>
  /\ \E k \in 1..Len(L) :
       /\ date_match(L[k])
       /\ ~ValidDate(year_month_match(L[1], today).year,
                     year_month_match(L[1], today).month, day_num(L[k]))

\* C6: the parse fails exactly when some date line has a day number that is
\* no day of the header's year and month, and a failed parse returns no
\* records.
C6_FailsIffBadDay ==
  (parse_status # "idle") =>
    /\ (parse_status = "error") <=> BadDateLine(Lines, now)
    /\ (parse_status = "error") => parsed_schedule = <<>>

\* C7: the parse of a text without a date line, the empty text and the
\* text of blank lines included, returns no record and raises nothing.
C7_NoDateLineNoRecords ==
  (parse_status # "idle" /\ \A k \in 1..Len(Lines) : ~date_match(Lines[k])) =>
    (parse_status = "ok" /\ parsed_schedule = <<>>)

\* C8: create_excel_file returns without error on every record sequence
\* that parse_schedule_text returns.
C8_PlacementNeverFails ==
  (parse_status = "ok" /\ excel_status # "idle") => excel_status = "ok"

\* the whitespace-delimited tokens of a string: its maximal runs of
\* characters that are neither a regular nor a full-width space
RECURSIVE NonSpaceRun(_, _)
NonSpaceRun(s, k) ==
  IF k <= Len(s) /\ ~IsSpace(s[k]) THEN NonSpaceRun(s, k + 1) ELSE k - 1

RECURSIVE Tokens(_)
Tokens(s) ==
  LET t == LStrip(s)
  IN  IF t = <<>> THEN <<>>
      ELSE <<SubSeq(t, 1, NonSpaceRun(t, 1))>>
             \o Tokens(SubSeq(t, NonSpaceRun(t, 1) + 1, Len(t)))

\* the record of the line with the tokens HH:MM LOC ACT...
RoundTrip(tok) ==
  /\ Len(parsed_schedule) = 1
  /\ parsed_schedule[1].time = tok[1]
  /\ parsed_schedule[1].location = tok[2]
  /\ parsed_schedule[1].activity = JoinSpace(SubSeq(tok, 3, Len(tok)))
  /\ parsed_schedule[1].has_all_data

\* the entry line of a text of SpecEntry
EntryLine == Lines[3]

NoBracket(s) == \A k \in 1..Len(s) : ~IsBracket(s[k])

\* C9: a timed line HH:MM LOC ACT without a bracket, ACT not empty, gives
\* the record of time HH:MM, location LOC, activity the tokens of ACT joined
\* by single spaces, complete; runs of regular and full-width spaces
\* separate alike.
C9_RoundTrip ==
  (parse_status = "ok" /\ NoBracket(EntryLine) /\ Len(Tokens(EntryLine)) >= 3) =>
    RoundTrip(Tokens(EntryLine))

\* C9 witness: an activity of two tokens that a run of a full-width and a
\* regular space separated in the line.
C9_Witness ==
  /\ parse_status = "ok"
  /\ NoBracket(EntryLine)
  /\ Len(Tokens(EntryLine)) = 4
  /\ IsSubstring(<<WideSpace, Space>>, EntryLine)
  /\ parsed_schedule[1].location = <<LetterA>>
  /\ parsed_schedule[1].activity = <<LetterB, Space, LetterB>>

\* the remainder of a timed line: what follows the time and the blanks
Remainder(line) == LStrip(SubSeq(line, NonSpaceRun(line, 1) + 1, Len(line)))

Count(s, c) == Cardinality({k \in 1..Len(s) : s[k] = c})

\* the remainder holds one bracket pair open .. close around some text,
\* and no other bracket
OnePair(rem, open, close) ==
  /\ Count(rem, open) = 1 /\ Count(rem, close) = 1
  /\ Cardinality({k \in 1..Len(rem) : IsBracket(rem[k])}) = 2
  /\ \E i, j \in 1..Len(rem) : i + 1 < j /\ rem[i] = open /\ rem[j] = close

\* what the pair encloses
Inside(rem, open, close) ==
  LET i == CHOOSE k \in 1..Len(rem) : rem[k] = open
      j == CHOOSE k \in 1..Len(rem) : rem[k] = close
  IN  SubSeq(rem, i + 1, j - 1)

BracketContentIsActivity(rem, open, close) ==
  OnePair(rem, open, close) =>
    /\ parsed_schedule[1].location = <<>>
    /\ parsed_schedule[1].activity = Inside(rem, open, close)

\* C10: a timed line whose remainder holds a bracket pair, full-width or
\* ASCII, gives a record with an empty location whose activity is what the
\* pair encloses, the text outside the pair left out.
C10_BracketContentOnly ==
  (parse_status = "ok") =>
    /\ BracketContentIsActivity(Remainder(EntryLine), WideOpen, WideClose)
    /\ BracketContentIsActivity(Remainder(EntryLine), AsciiOpen, AsciiClose)

\* the third line of a text of SpecLine, trimmed as the parser sees it
GivenLine == Strip(schedule_text[3])

\* the line is one bracket pair of one family, full-width or ASCII, around
\* a text that holds no bracket
WrappedInOnePair(line) ==
  /\ Len(line) >= 3
  /\ \/ line[1] = WideOpen /\ line[Len(line)] = WideClose
     \/ line[1] = AsciiOpen /\ line[Len(line)] = AsciiClose
  /\ NoBracket(SubSeq(line, 2, Len(line) - 1))

\* the one record of a bracket-only line
IsBracketRecord(line) ==
  /\ Len(parsed_schedule) = 1
  /\ parsed_schedule[1].time = <<>>
  /\ parsed_schedule[1].location = <<>>
  /\ ~parsed_schedule[1].has_all_data
  /\ parsed_schedule[1].activity = Strip(SubSeq(line, 2, Len(line) - 1))

\* C11: a line after a date line gives a record without a time exactly when
\* the whole line is one bracket pair of one family around a text without
\* brackets, and that record then has an empty location, is incomplete and
\* has the enclosed text as its activity; a line opened by one family and
\* closed by the other, or with more brackets inside, gives no such record.
C11_BracketOnlyLine ==
  (parse_status = "ok") =>
    IF WrappedInOnePair(GivenLine)
    THEN IsBracketRecord(GivenLine)
    ELSE \A e \in Entries : parsed_schedule[e].time # <<>>

\* a line that is one bracket pair of one family gives the record C11 names
WrappedLineGivesBracketRecord ==
  (parse_status = "ok" /\ WrappedInOnePair(GivenLine)) => IsBracketRecord(GivenLine)

\* one of the seven keywords stands in s from position p on
KeywordAt(s, p) ==
  \E j \in 1..Len(Keywords) :
    /\ p + Len(Keywords[j]) - 1 <= Len(s)
    /\ \A i \in 1..Len(Keywords[j]) : s[p + i - 1] = Keywords[j][i]

ContainsKeyword(s) == \E p \in 1..Len(s) : KeywordAt(s, p)

\* the record of the timed line with the tokens H:MM T1 T2 ..., no bracket
\* in them: a lone T1 is the activity if it contains a keyword and the
\* location if not; with a second token, T1 is the location
RepairedRecord(tok) ==
  /\ Len(parsed_schedule) = 1
  /\ IF Len(tok) = 2
     THEN IF ContainsKeyword(tok[2])
          THEN /\ parsed_schedule[1].location = <<>>
               /\ parsed_schedule[1].activity = tok[2]
          ELSE /\ parsed_schedule[1].location = tok[2]
               /\ parsed_schedule[1].activity = <<>>
     ELSE /\ parsed_schedule[1].location = tok[2]
          /\ parsed_schedule[1].activity # <<>>

TimedTokens(tok) == Len(tok) >= 2 /\ tok[1] = TimeText(9, 1, 5)

\* C12: on a timed line without brackets, a single token after the time is
\* moved to the activity, the location left empty, exactly when it contains
\* one of the seven keywords, and stays the location otherwise; when a
\* second token follows, the first stays the location whatever it contains.
C12_KeywordRepair ==
  (parse_status = "ok" /\ NoBracket(GivenLine) /\ TimedTokens(Tokens(GivenLine))) =>
    RepairedRecord(Tokens(GivenLine))

\* C12 witness: the single token 'a会議', which holds a keyword without
\* being one, has become the activity.
C12_Witness ==
  /\ parse_status = "ok"
  /\ Tokens(GivenLine) = <<TimeText(9, 1, 5), <<LetterA>> \o Keywords[2]>>
  /\ parsed_schedule[1].location = <<>>
  /\ parsed_schedule[1].activity = <<LetterA>> \o Keywords[2]

\* a keyword as the first of two tokens has stayed the location
KeywordStaysLocation ==
  /\ parse_status = "ok"
  /\ Tokens(GivenLine) = <<TimeText(9, 1, 5), Keywords[2], <<LetterA>> >>
  /\ parsed_schedule[1].location = Keywords[2]

\* the least index of a line of the text that holds a date range of
\* RangeLines, 0 when no line does
FirstRangeLine(text) ==
  LET hits == {k \in 1..Len(text) :
                 \E r \in RangeLines : IsSubstring(RangeText(r), text[k])}
  IN  IF hits = {} THEN 0 ELSE CHOOSE k \in hits : \A j \in hits : k <= j

\* YYYYMMDDtoYYYYMMDD.xlsx for the dates of r
ExpectedName(r) ==
  Pad(r.y1, 4) \o Pad(r.m1, 2) \o Pad(r.d1, 2) \o <<116, 111>>
    \o Pad(r.y2, 4) \o Pad(r.m2, 2) \o Pad(r.d2, 2) \o <<46, 120, 108, 115, 120>>

\* weekly_schedule_YYYYMMDD.xlsx for the date dt
ExpectedFallback(dt) ==
  <<119, 101, 101, 107, 108, 121, 95, 115, 99, 104, 101, 100, 117, 108, 101, 95>>
    \o Pad(dt.y, 4) \o Pad(dt.m, 2) \o Pad(dt.d, 2) \o <<46, 120, 108, 115, 120>>

NameFollowsText(text, k) ==
  IF k = 0 THEN filename = ExpectedFallback(now)
  ELSE \E r \in RangeLines :
         IsSubstring(RangeText(r), text[k]) /\ filename = ExpectedName(r)

\* C13: the file name is a function of the text alone: the start date and
\* the end date of the first date range in the text as 8 digits each, the
\* month and the day padded to 2 digits, around 'to' and before '.xlsx',
\* or the fallback name of the current date when the text holds no date
\* range; whether the text was parsed, and with what outcome, changes nothing.
C13_FilenameFromText ==
  (filename # <<>>) => NameFollowsText(schedule_text, FirstRangeLine(schedule_text))

\* C13 witness: a range with a one-digit month and day has given the padded
\* name although the parse of the same text failed.
C13_Witness ==
  /\ parse_status = "error"
  /\ filename = <<50, 48, 50, 53, 48, 54, 51, 48, 116, 111,
                  50, 48, 50, 53, 48, 55, 48, 54, 46, 120, 108, 115, 120>>

\* the fallback name has been given for a text that parsed
FallbackReached ==
  /\ parse_status = "ok"
  /\ parsed_schedule # <<>>
  /\ filename = ExpectedFallback(now)

\* n in decimal digits without padding
RECURSIVE Decimal(_)
Decimal(n) ==
  IF n < 10 THEN <<Digit0 + n>> ELSE Append(Decimal(n \div 10), Digit0 + (n % 10))

\* the cell (r, c) was given the string s
Holds(r, c, s) ==
  \E k \in 1..Len(writes) :
    writes[k].row = r /\ writes[k].column = c /\ writes[k].value = StrValue(s)

\* column 1 of block d: the weekday of date in parentheses, the date as
\* datetext, and four empty strings
DateColumnOfDay(d, date, datetext) ==
  /\ Holds(7 + 6 * d, 1, <<AsciiOpen, day_names[Weekday(date) + 1], AsciiClose>>)
  /\ Holds(7 + 6 * d + 1, 1, datetext)
  /\ \A r \in (7 + 6 * d + 2)..(7 + 6 * d + 5) : Holds(r, 1, <<>>)

\* YYYY/M/D, as in 2025/6/23
DateUnpadded(date) ==
  Decimal(date.y) \o <<47>> \o Decimal(date.m) \o <<47>> \o Decimal(date.d)

\* YYYY/MM/DD, as in 2025/06/23
DateZeroPadded(date) ==
  Pad(date.y, 4) \o <<47>> \o Pad(date.m, 2) \o <<47>> \o Pad(date.d, 2)

\* C14: after create_excel_file returned for a non-empty list, for each d in
\* 0..6 column 1 of row 7+6d holds the weekday of start_date+d, computed from
\* the date, in parentheses, column 1 of row 7+6d+1 holds that date as
\* YYYY/M/D without zero padding, and column 1 of rows 7+6d+2 to 7+6d+5
\* holds the empty string.
C14_DateColumn ==
  (excel_status = "ok" /\ parsed_schedule # <<>>) =>
    \A d \in 0..6 :
      DateColumnOfDay(d, AddDays(start_date(parsed_schedule), d),
                      DateUnpadded(AddDays(start_date(parsed_schedule), d)))

\* the same with the date as YYYY/MM/DD, month and day on two digits
DateColumnZeroPadded ==
  (excel_status = "ok" /\ parsed_schedule # <<>>) =>
    \A d \in 0..6 :
      DateColumnOfDay(d, AddDays(start_date(parsed_schedule), d),
                      DateZeroPadded(AddDays(start_date(parsed_schedule), d)))

\* the least of the dates of the records, as a day number
LeastDay ==
  CHOOSE o \in {ToOrdinal(parsed_schedule[e].full_date) : e \in Entries} :
    \A e \in Entries : o <= ToOrdinal(parsed_schedule[e].full_date)

\* every write of a record is in the block of its day of the week that
\* starts at `least`
WritesInOwnBlock(least) ==
  \A k \in 1..Len(writes) :
    writes[k].entry # 0 =>
      /\ ToOrdinal(parsed_schedule[writes[k].entry].full_date) - least \in 0..6
      /\ writes[k].row \in
           BlockRows(ToOrdinal(parsed_schedule[writes[k].entry].full_date) - least)

\* a failed call had a record in the week whose time is not a time of day
FailureIsOfTheWeek(least) ==
  (excel_status = "error") =>
    \E e \in Entries :
      /\ ToOrdinal(parsed_schedule[e].full_date) - least \in 0..6
      /\ parsed_schedule[e].time # <<>>
      /\ (HourOf(e) > 23 \/ MinuteOf(e) > 59)

\* C15: the week of the sheet starts at the least date of the records; a
\* record is written only if its date is start_date + d with d in 0..6, and
\* then only in rows 7+6d to 7+6d+5; a record dated outside the week has no
\* write and raises no error.
C15_OnlyTheWeekIsWritten ==
  (excel_status # "idle" /\ parsed_schedule # <<>>) =>
    /\ WritesInOwnBlock(LeastDay)
    /\ FailureIsOfTheWeek(LeastDay)

\* C15 witness: the first record is dated a week after the second; the call
\* returned, the second record is in block 0 and the first has no write.
C15_Witness ==
  /\ excel_status = "ok"
  /\ Len(parsed_schedule) = 2
  /\ ToOrdinal(parsed_schedule[1].full_date)
       = ToOrdinal(parsed_schedule[2].full_date) + 7
  /\ \A k \in 1..Len(writes) : writes[k].entry # 1
  /\ Placed(2) /\ RowOf(2) = 7

\* a record with the time 25:00 dated after the week, and no error
LateBadTimeNoError ==
  /\ excel_status = "ok"
  /\ \E e \in Entries : parsed_schedule[e].time # <<>> /\ HourOf(e) > 23

\* the cells written, each as <<row, column>>
CellsWritten == {<<writes[k].row, writes[k].column>> : k \in 1..Len(writes)}

\* C16: in one call of create_excel_file no cell is written twice, every
\* cell written is in columns 1 to 4 of rows 7 to 48, and a call on the
\* empty list writes no cell at all.
C16_EachCellOnce ==
  /\ Cardinality(CellsWritten) = Len(writes)
  /\ \A k \in 1..Len(writes) : writes[k].column \in 1..4 /\ writes[k].row \in 7..48
  /\ (excel_status # "idle" /\ parsed_schedule = <<>>) =>
       (excel_status = "ok" /\ writes = <<>>)

\* C16 witness: the call returned with the 42 cells of the date column and
\* the three cells each of two records of one day, in rows 7 and 8.
C16_Witness ==
  /\ excel_status = "ok"
  /\ Len(writes) = 48
  /\ \E e1, e2 \in Entries :
       e1 # e2 /\ SameDay(e1, e2) /\ RowOf(e1) = 7 /\ RowOf(e2) = 8

\* create_excel_file has returned for the empty list
EmptyListCalled ==
  /\ excel_status = "ok"
  /\ parsed_schedule = <<>>
  /\ writes = <<>>

\* record e has neither a location nor an activity
Blank(e) == parsed_schedule[e].location = <<>> /\ parsed_schedule[e].activity = <<>>

\* record e is as a bracket-only line gives it
OfBracketLine(e) ==
  /\ parsed_schedule[e].time = <<>>
  /\ parsed_schedule[e].location = <<>>
  /\ ~parsed_schedule[e].has_all_data

\* C17: every record returned has a location or an activity, or is the
\* record of a bracket-only line (no time, no location, incomplete); no
\* record with a time has both empty.
C17_LocationOrActivity ==
  (parse_status = "ok") => \A e \in Entries : ~Blank(e) \/ OfBracketLine(e)

\* the remainder is made of bracket glyphs only, a full-width opening and
\* a full-width closing one among them
OnlyBrackets(rem) ==
  /\ \A k \in 1..Len(rem) : IsBracket(rem[k])
  /\ Contains(rem, WideOpen) /\ Contains(rem, WideClose)

\* C17, amended: a record is complete exactly when it has a time and a
\* location or an activity; a record with neither location nor activity is
\* incomplete, and it is the record of a bracket-only line or of a timed
\* line whose remainder is made of bracket glyphs only, the two full-width
\* ones among them.
C17_BlankOnlyIncomplete ==
  (parse_status = "ok") =>
    \A e \in Entries :
      /\ parsed_schedule[e].has_all_data <=>
           (parsed_schedule[e].time # <<>> /\ ~Blank(e))
      /\ (Blank(e) /\ parsed_schedule[e].time # <<>>) =>
           OnlyBrackets(Remainder(GivenLine))

\* C17 witness: the timed line '9:05 （）' has given a record with its time,
\* no location, no activity, incomplete.
C17_Witness ==
  /\ parse_status = "ok"
  /\ Remainder(GivenLine) = <<WideOpen, WideClose>>
  /\ Len(parsed_schedule) = 1
  /\ parsed_schedule[1].time = TimeText(9, 1, 5)
  /\ Blank(1)
  /\ ~parsed_schedule[1].has_all_data

\* records e1 and e2 have the same sort key: completeness and time
SameKey(e1, e2) ==
  /\ Complete(e1) = Complete(e2)
  /\ parsed_schedule[e1].time = parsed_schedule[e2].time

\* records of one day with the same sort key are placed in their input order
StableWithinKey ==
  \A e1, e2 \in Entries :
    (Placed(e1) /\ Placed(e2) /\ SameDay(e1, e2) /\ SameKey(e1, e2) /\ e1 < e2)
      => RowOf(e1) < RowOf(e2)

\* C18: of two records placed in the same day's block and of the same
\* completeness, a record with a time, whatever the time, is in an earlier
\* row than a record without one; records with equal sort keys are placed
\* in their input order.
C18_TimelessLast ==
  /\ \A e1, e2 \in Entries :
       (/\ Placed(e1) /\ Placed(e2) /\ SameDay(e1, e2)
        /\ Complete(e1) = Complete(e2)
        /\ parsed_schedule[e1].time # <<>> /\ parsed_schedule[e2].time = <<>>)
         => RowOf(e1) < RowOf(e2)
  /\ StableWithinKey

====
